---- MODULE Spec2Model ----
(***************************************************************************)
(* Shamir secret sharing over GF(2^8) with Merkle-signed shares: the share *)
(* generation, share-set validation, recovery and barycentric Lagrange     *)
(* interpolation of the RustySecrets sources.                               *)
(***************************************************************************)
EXTENDS Integers, Sequences, FiniteSets, TLC

(***************************************************************************)
(* Bounds of the exploration.                                              *)
(***************************************************************************)
\* k and n of a generate_shares call range over 0..MaxN when shares are
\* assembled for recovery, and over 0..MaxSplitN when splitting is explored alone
MaxN == 2
MaxSplitN == 3
\* number of generate_shares calls in one behaviour
MaxDealings == 2
\* length of the share list handed to recovery
MaxInput == 2
\* number of alterations made to the handed-in shares
MaxTampers == 1
\* threshold of a PartialSecret ranges over 2..MaxThreshold
MaxThreshold == 3
\* update calls made on a PartialSecret after its last point went in
MaxAgain == 1

\* secrets handed to the splitter ("h" and "hi")
Secrets == {<<104>>, <<104, 105>>}
\* values the random source is sampled at
RandBytes == {0, 83}
SplitRandBytes == {0, 1, 83, 255}
\* secrets split when splitting is explored alone
SplitSecrets == {<<0>>, <<104>>, <<255>>, <<104, 105>>}
\* candidate secret bytes compared by the secrecy claim
CandidateBytes == {0, 104, 105, 255}
\* share identifiers and y values fed to a PartialSecret
PointIds == {1, 2, 3, 255}
PointYs == {0, 1, 104, 200}

Byte == 0..255

(***************************************************************************)
(* GF(2^8), Rijndael polynomial 0x11B, generator 3 (gf256 module).         *)
(***************************************************************************)
RECURSIVE XorBits(_, _, _)
XorBits(a, b, bits) ==
    IF bits = 0 THEN 0
    ELSE ((a + b) % 2) + 2 * XorBits(a \div 2, b \div 2, bits - 1)

\* EXP[i + 1] = 3^i, i in 0..255
EXP ==
  <<
       1,   3,   5,  15,  17,  51,  85, 255,  26,  46, 114, 150, 161, 248,  19,  53,
      95, 225,  56,  72, 216, 115, 149, 164, 247,   2,   6,  10,  30,  34, 102, 170,
     229,  52,  92, 228,  55,  89, 235,  38, 106, 190, 217, 112, 144, 171, 230,  49,
      83, 245,   4,  12,  20,  60,  68, 204,  79, 209, 104, 184, 211, 110, 178, 205,
      76, 212, 103, 169, 224,  59,  77, 215,  98, 166, 241,   8,  24,  40, 120, 136,
     131, 158, 185, 208, 107, 189, 220, 127, 129, 152, 179, 206,  73, 219, 118, 154,
     181, 196,  87, 249,  16,  48,  80, 240,  11,  29,  39, 105, 187, 214,  97, 163,
     254,  25,  43, 125, 135, 146, 173, 236,  47, 113, 147, 174, 233,  32,  96, 160,
     251,  22,  58,  78, 210, 109, 183, 194,  93, 231,  50,  86, 250,  21,  63,  65,
     195,  94, 226,  61,  71, 201,  64, 192,  91, 237,  44, 116, 156, 191, 218, 117,
     159, 186, 213, 100, 172, 239,  42, 126, 130, 157, 188, 223, 122, 142, 137, 128,
     155, 182, 193,  88, 232,  35, 101, 175, 234,  37, 111, 177, 200,  67, 197,  84,
     252,  31,  33,  99, 165, 244,   7,   9,  27,  45, 119, 153, 176, 203,  70, 202,
      69, 207,  74, 222, 121, 139, 134, 145, 168, 227,  62,  66, 198,  81, 243,  14,
      18,  54,  90, 238,  41, 123, 141, 140, 143, 138, 133, 148, 167, 242,  13,  23,
      57,  75, 221, 124, 132, 151, 162, 253,  28,  36, 108, 180, 199,  82, 246,   1
  >>

\* LOG[a + 1] = discrete logarithm of a to base 3 (entry for 0 unused)
LOG ==
  <<
       0,   0,  25,   1,  50,   2,  26, 198,  75, 199,  27, 104,  51, 238, 223,   3,
     100,   4, 224,  14,  52, 141, 129, 239,  76, 113,   8, 200, 248, 105,  28, 193,
     125, 194,  29, 181, 249, 185,  39, 106,  77, 228, 166, 114, 154, 201,   9, 120,
     101,  47, 138,   5,  33,  15, 225,  36,  18, 240, 130,  69,  53, 147, 218, 142,
     150, 143, 219, 189,  54, 208, 206, 148,  19,  92, 210, 241,  64,  70, 131,  56,
     102, 221, 253,  48, 191,   6, 139,  98, 179,  37, 226, 152,  34, 136, 145,  16,
     126, 110,  72, 195, 163, 182,  30,  66,  58, 107,  40,  84, 250, 133,  61, 186,
      43, 121,  10,  21, 155, 159,  94, 202,  78, 212, 172, 229, 243, 115, 167,  87,
     175,  88, 168,  80, 244, 234, 214, 116,  79, 174, 233, 213, 231, 230, 173, 232,
      44, 215, 117, 122, 235,  22,  11, 245,  89, 203,  95, 176, 156, 169,  81, 160,
     127,  12, 246, 111,  23, 196,  73, 236, 216,  67,  31,  45, 164, 118, 123, 183,
     204, 187,  62,  90, 251,  96, 177, 134,  59,  82, 161, 108, 170,  85,  41, 157,
     151, 178, 135, 144,  97, 190, 220, 252, 188, 149, 207, 205,  55,  63,  91, 209,
      83,  57, 132,  60,  65, 162, 109,  71,  20,  42, 158,  93,  86, 242, 211, 171,
      68,  17, 146, 217,  35,  32,  46, 137, 180, 124, 184,  38, 119, 153, 227, 165,
     103,  74, 237, 222, 197,  49, 254,  24,  13,  99, 140, 128, 192, 247, 112,   7
  >>

Gf256Add(a, b) == XorBits(a, b, 8)

Gf256Sub(a, b) == XorBits(a, b, 8)

Gf256Mul(a, b) ==
    IF a = 0 \/ b = 0 THEN 0
    ELSE EXP[((LOG[a + 1] + LOG[b + 1]) % 255) + 1]

\* the caller guarantees b # 0 (division by zero is a panic in the source)
Gf256Div(a, b) ==
    IF a = 0 THEN 0
    ELSE EXP[((LOG[a + 1] + 255 - LOG[b + 1]) % 255) + 1]

(***************************************************************************)
(* Sequence helpers.                                                       *)
(***************************************************************************)
Range(s) == {s[i] : i \in 1..Len(s)}

Min(a, b) == IF a <= b THEN a ELSE b

Reverse(s) == [i \in 1..Len(s) |-> s[Len(s) + 1 - i]]

Take(s, m) == SubSeq(s, 1, Min(m, Len(s)))

\* Option<T> is a sequence of length at most one
None == <<>>
Some(v) == <<v>>

(***************************************************************************)
(* format_share_for_signing: "K-N-BASE64(data)" as a sequence of           *)
(* characters.                                                             *)
(***************************************************************************)
Digit == <<"0", "1", "2", "3", "4", "5", "6", "7", "8", "9">>

RECURSIVE Decimal(_)
Decimal(v) ==
    IF v < 10 THEN <<Digit[v + 1]>>
    ELSE Append(Decimal(v \div 10), Digit[(v % 10) + 1])

Base64Alphabet ==
  <<
     "A", "B", "C", "D", "E", "F", "G", "H", "I", "J", "K", "L", "M", "N", "O", "P",
     "Q", "R", "S", "T", "U", "V", "W", "X", "Y", "Z", "a", "b", "c", "d", "e", "f",
     "g", "h", "i", "j", "k", "l", "m", "n", "o", "p", "q", "r", "s", "t", "u", "v",
     "w", "x", "y", "z", "0", "1", "2", "3", "4", "5", "6", "7", "8", "9", "+", "/"
  >>

B64(v) == Base64Alphabet[v + 1]

RECURSIVE Base64(_)
Base64(data) ==
    IF Len(data) = 0 THEN <<>>
    ELSE IF Len(data) = 1 THEN
        <<B64(data[1] \div 4), B64((data[1] % 4) * 16), "=", "=">>
    ELSE IF Len(data) = 2 THEN
        <<B64(data[1] \div 4),
          B64((data[1] % 4) * 16 + data[2] \div 16),
          B64((data[2] % 16) * 4), "=">>
    ELSE
        <<B64(data[1] \div 4),
          B64((data[1] % 4) * 16 + data[2] \div 16),
          B64((data[2] % 16) * 4 + data[3] \div 64),
          B64(data[3] % 64)>> \o Base64(SubSeq(data, 4, Len(data)))

format_share_for_signing(k, n, data) ==
    Decimal(k) \o <<"-">> \o Decimal(n) \o <<"-">> \o Base64(data)

(***************************************************************************)
(* Results and errors (errors.rs).  A result is Ok(value), Err(error) or   *)
(* Panic (a failed assertion or an out-of-range index); NotCalled marks an *)
(* operation that has not run.                                             *)
(***************************************************************************)
Ok(v) == [tag |-> "Ok", value |-> v]
Err(e) == [tag |-> "Err", error |-> e]
Panic == [tag |-> "Panic"]
NotCalled == [tag |-> "NotCalled"]

InvalidThreshold(k, n) == [kind |-> "InvalidThreshold", k |-> k, n |-> n]

EmptyShares == [kind |-> "EmptyShares"]

IncompatibleSets(sets) == [kind |-> "IncompatibleSets", sets |-> sets]

\* the declaration names its first field provided and its second required
MissingShares(first, second) ==
    [kind |-> "MissingShares", provided |-> first, required |-> second]

InvalidSignature(share_id) == [kind |-> "InvalidSignature", share_id |-> share_id]

MissingSignature(share_id) == [kind |-> "MissingSignature", share_id |-> share_id]

InvalidSplitParametersZero(k, n) ==
    [kind |-> "InvalidSplitParametersZero", k |-> k, n |-> n]

DuplicateShareId(share_id) == [kind |-> "DuplicateShareId", share_id |-> share_id]

DuplicateShareData(share_id) == [kind |-> "DuplicateShareData", share_id |-> share_id]

\* the display clause of MissingShares, as a sequence of text pieces
DisplayMissingShares(e) ==
    Decimal(e.required)
        \o <<" shares are required to recover the secret, found only ">>
        \o Decimal(e.provided) \o <<".">>

IsErr(r, kind) == r.tag = "Err" /\ r.error.kind = kind

(***************************************************************************)
(* Merkle one-time signatures, a sound black box: a signature pair binds   *)
(* one message to the Merkle root of its dealing, and verifies for that    *)
(* message and that root only.                                             *)
(***************************************************************************)
sign_data_vec(messages, root) ==
    [i \in 1..Len(messages) |->
        [signature |-> messages[i], proof |-> [root_hash |-> root]]]

verify_data_vec_signature(message, sig_pair, root_hash) ==
    sig_pair.signature = message /\ sig_pair.proof.root_hash = root_hash

(***************************************************************************)
(* Splitting (sss/mod.rs).                                                 *)
(***************************************************************************)
\* Poly::evaluate_at, Horner's method
RECURSIVE evaluate_at(_, _)
evaluate_at(coeffs, x) ==
    IF Len(coeffs) = 0 THEN 0
    ELSE Gf256Add(coeffs[1], Gf256Mul(x, evaluate_at(Tail(coeffs), x)))

\* interpolation::encode: the polynomial with coefficients src at x = 1..n
encode(src, n) == [x \in 1..n |-> evaluate_at(src, x)]

\* let mut col_in = vec![0u8, k];
col_in_new(k) == <<0, k>>

\* the number of bytes fill_bytes(&mut col_in[1..]) draws for one secret byte
RandomPerByte(k) == Len(col_in_new(k)) - 1

\* the draws of the random source for a secret: one row per secret byte
RandomDraws(src, k, bytes) ==
    [1..Len(src) -> [1..RandomPerByte(k) -> bytes]]

\* the column handed to encode for secret byte s and the random row r
col_in_for(s, r, k) == <<s>> \o SubSeq(r, 1, Len(col_in_new(k)) - 1)

secret_share(src, k, n, rnd) ==
    [i \in 1..n |->
        [c \in 1..Len(src) |-> encode(col_in_for(src[c], rnd[c], k), n)[i]]]

generate_shares(k, n, secret, sign_shares, rnd, root) ==
    IF k > n THEN Err(InvalidThreshold(k, n))
    ELSE
        LET shares == secret_share(secret, k, n, rnd)
            shares_to_sign ==
                [i \in 1..n |-> format_share_for_signing(k, i, shares[i])]
            sig_pairs ==
                IF sign_shares
                THEN [i \in 1..n |-> Some(sign_data_vec(shares_to_sign, root)[i])]
                ELSE [i \in 1..n |-> None]
        IN  Ok([i \in 1..n |->
                   [id |-> i, k |-> k, n |-> n, data |-> shares[i],
                    signature_pair |-> sig_pairs[i]]])

(***************************************************************************)
(* Share-set validation (share/validation.rs, sss/share.rs).               *)
(***************************************************************************)
\* the keys and the values of a compatibility map kept as a set of
\* <<key, member>> pairs
Keys(sets) == {p[1] : p \in sets}

\* the members inserted under one key
Bucket(sets, key) == {p[2] : p \in {q \in sets : q[1] = key}}

\* one bucket per key, in the order the hash map yields them, which is not
\* determined: a bag of buckets, each bucket mapped to the number of keys
\* that hold it
Values(sets) ==
    LET buckets == {Bucket(sets, key) : key \in Keys(sets)}
    IN  [b \in buckets |->
            Cardinality({key \in Keys(sets) : Bucket(sets, key) = b})]

RECURSIVE validate_shares_loop(_, _, _, _)
validate_shares_loop(shares, i, result, k_compatibility_sets) ==
    IF i > Len(shares)
    THEN Ok([result |-> result, k_compatibility_sets |-> k_compatibility_sets])
    ELSE
        LET share == shares[i]
            id == share.id
            threshold == share.k
            k_sets == k_compatibility_sets \cup {<<threshold, id>>}
        IN  IF \E j \in 1..Len(result) : result[j].id = id
            THEN Err(DuplicateShareId(id))
            ELSE IF (\E j \in 1..Len(result) : result[j].data = share.data)
                    /\ share.k # 1
            THEN Err(DuplicateShareData(id))
            ELSE validate_shares_loop(shares, i + 1, Append(result, share), k_sets)

validate_shares(shares) ==
    IF Len(shares) = 0 THEN Err(EmptyShares)
    ELSE
        LET shares_count == Len(shares)
            loop == validate_shares_loop(shares, 1, <<>>, {})
        IN  IF loop.tag # "Ok" THEN loop
            ELSE
                LET k_compatibility_sets == loop.value.k_compatibility_sets
                    k_sets == Cardinality(Keys(k_compatibility_sets))
                    threshold == CHOOSE t \in Keys(k_compatibility_sets) : TRUE
                IN  IF k_sets = 0 THEN Err(EmptyShares)
                    ELSE IF k_sets > 1
                    THEN Err(IncompatibleSets(Values(k_compatibility_sets)))
                    ELSE IF shares_count < threshold
                    THEN Err(MissingShares(threshold, shares_count))
                    ELSE Ok([threshold |-> threshold, shares |-> loop.value.result])

is_signed(share) == share.signature_pair # None

RECURSIVE verify_signatures_loop(_, _, _)
verify_signatures_loop(shares, i, rh_compatibility_sets) ==
    IF i > Len(shares) THEN Ok(rh_compatibility_sets)
    ELSE
        LET share == shares[i]
        IN  IF ~is_signed(share) THEN Err(MissingSignature(share.id))
            ELSE
                LET sig_pair == share.signature_pair[1]
                    root_hash == sig_pair.proof.root_hash
                IN  IF ~verify_data_vec_signature(
                            format_share_for_signing(share.k, share.n, share.data),
                            sig_pair, root_hash)
                    THEN Err(InvalidSignature(share.id))
                    ELSE verify_signatures_loop(shares, i + 1,
                            rh_compatibility_sets \cup {<<root_hash, share.id>>})

verify_signatures(shares) ==
    LET loop == verify_signatures_loop(shares, 1, {})
    IN  IF loop.tag # "Ok" THEN loop
        ELSE
            LET rh_sets == Cardinality(Keys(loop.value))
            IN  IF rh_sets = 0 THEN Err(EmptyShares)
                ELSE IF rh_sets = 1 THEN Ok(TRUE)
                ELSE Err(IncompatibleSets(Values(loop.value)))

validate_signed_shares(shares, verify) ==
    LET validated == validate_shares(shares)
    IN  IF validated.tag # "Ok" THEN validated
        ELSE IF verify /\ verify_signatures(validated.value.shares).tag # "Ok"
        THEN verify_signatures(validated.value.shares)
        ELSE validated

(***************************************************************************)
(* Recovery (sss/mod.rs).                                                  *)
(***************************************************************************)
\* the interpolator's assertions: an x of zero, or two equal x
FatalPoints(points) ==
    \/ \E i \in 1..Len(points) : points[i][1] = 0
    \/ \E i, j \in 1..Len(points) : i # j /\ points[i][1] = points[j][1]

RECURSIVE LagrangeBasisAt0(_, _, _)
LagrangeBasisAt0(points, i, j) ==
    IF j > Len(points) THEN 1
    ELSE IF j = i THEN LagrangeBasisAt0(points, i, j + 1)
    ELSE Gf256Mul(
            Gf256Div(points[j][1], Gf256Sub(points[i][1], points[j][1])),
            LagrangeBasisAt0(points, i, j + 1))

RECURSIVE LagrangeSumAt0(_, _)
LagrangeSumAt0(points, i) ==
    IF i > Len(points) THEN 0
    ELSE Gf256Add(
            Gf256Mul(LagrangeBasisAt0(points, i, 1), points[i][2]),
            LagrangeSumAt0(points, i + 1))

\* interpolation::lagrange_interpolate: the value at 0 of the polynomial
\* through the points; the caller has excluded FatalPoints
lagrange_interpolate(points) == LagrangeSumAt0(points, 1)

recover_secret(shares, verify) ==
    LET validated == validate_signed_shares(shares, verify)
    IN  IF validated.tag # "Ok" THEN validated
        ELSE
            LET k == validated.value.threshold
                valid == validated.value.shares
                slen == Len(valid[1].data)
                taken == Take(valid, k)
                col_in(byteindex) ==
                    [j \in 1..Len(taken) |->
                        <<taken[j].n, taken[j].data[byteindex]>>]
            IN  IF \E byteindex \in 1..slen, j \in 1..Len(taken) :
                        byteindex > Len(taken[j].data)
                THEN Panic
                ELSE IF \E byteindex \in 1..slen : FatalPoints(col_in(byteindex))
                THEN Panic
                ELSE Ok([byteindex \in 1..slen |->
                            lagrange_interpolate(col_in(byteindex))])

(***************************************************************************)
(* The share string and the string-based validation (validation.rs).       *)
(***************************************************************************)
\* Share::into_string: "K-ID-" followed by the encoded payload; the payload
\* codec is external and carries the data and the signature pair
into_string(share) ==
    [text |-> Decimal(share.k) \o <<"-">> \o Decimal(share.id) \o <<"-">>,
     payload |-> [data |-> share.data, signature_pair |-> share.signature_pair]]

DigitValue(c) == CHOOSE v \in 0..9 : Digit[v + 1] = c

RECURSIVE ParseU8(_)
ParseU8(text) ==
    IF Len(text) = 0 THEN 0
    ELSE 10 * ParseU8(SubSeq(text, 1, Len(text) - 1)) + DigitValue(text[Len(text)])

\* the position of the first "-" at or after position from
RECURSIVE DashAt(_, _)
DashAt(text, from) == IF text[from] = "-" THEN from ELSE DashAt(text, from + 1)

\* share_format::share_from_string: (share_data, k, n, sig_pair), n being the
\* share number written in the string
share_from_string(line) ==
    LET d1 == DashAt(line.text, 1)
        d2 == DashAt(line.text, d1 + 1)
    IN  [share_data |-> line.payload.data,
         k |-> ParseU8(SubSeq(line.text, 1, d1 - 1)),
         n |-> ParseU8(SubSeq(line.text, d1 + 1, d2 - 1)),
         sig_pair |-> line.payload.signature_pair]

RECURSIVE process_loop(_, _, _, _, _, _)
process_loop(shares_strings, verify, counter, shares, k_compatibility_sets, rh_compatibility_sets) ==
    IF counter >= Len(shares_strings)
    THEN Ok([shares |-> shares, k_compatibility_sets |-> k_compatibility_sets,
             rh_compatibility_sets |-> rh_compatibility_sets])
    ELSE
        LET share_index == counter % 256
            parsed == share_from_string(shares_strings[counter + 1])
            share_data == parsed.share_data
            k == parsed.k
            n == parsed.n
            sig_pair == parsed.sig_pair
            root_hash == sig_pair[1].proof.root_hash
            rh_sets ==
                IF verify
                THEN rh_compatibility_sets \cup {<<root_hash, share_index>>}
                ELSE rh_compatibility_sets
            k_sets == k_compatibility_sets \cup {<<k, share_index>>}
        IN  IF verify /\ sig_pair = None
            THEN Err(MissingSignature(share_index))
            ELSE IF verify
                    /\ ~verify_data_vec_signature(
                            format_share_for_signing(k, n, share_data),
                            sig_pair[1], root_hash)
            THEN Err(InvalidSignature(share_index))
            ELSE IF \E j \in 1..Len(shares) : shares[j][1] = n
            THEN Err(DuplicateShareId(share_index))
            ELSE IF (\E j \in 1..Len(shares) : shares[j][2] = share_data) /\ k # 1
            THEN Err(DuplicateShareData(share_index))
            ELSE process_loop(shares_strings, verify, counter + 1,
                              Append(shares, <<n, share_data>>), k_sets, rh_sets)

process_and_validate_shares(shares_strings, verify) ==
    LET loop == process_loop(shares_strings, verify, 0, <<>>, {}, {})
    IN  IF loop.tag # "Ok" THEN loop
        ELSE
            LET shares == loop.value.shares
                k_sets == Cardinality(Keys(loop.value.k_compatibility_sets))
                rh_sets == Cardinality(Keys(loop.value.rh_compatibility_sets))
                k == CHOOSE t \in Keys(loop.value.k_compatibility_sets) : TRUE
                shares_num == Len(shares)
            IN  IF verify /\ rh_sets = 0 THEN Err(EmptyShares)
                ELSE IF verify /\ rh_sets > 1
                THEN Err(IncompatibleSets(Values(loop.value.rh_compatibility_sets)))
                ELSE IF k_sets = 0 THEN Err(EmptyShares)
                ELSE IF k_sets > 1
                THEN Err(IncompatibleSets(Values(loop.value.k_compatibility_sets)))
                ELSE IF shares_num < k THEN Err(MissingShares(k, shares_num))
                ELSE Ok([threshold |-> k, shares |-> Take(shares, k)])

(***************************************************************************)
(* Barycentric Lagrange interpolation at zero (lagrange.rs).  A            *)
(* PartialSecret is a record of its three fields plus panicked, which is   *)
(* TRUE once one of its assertions has failed.                             *)
(***************************************************************************)
\* the build of the crate: TRUE when usize arithmetic traps on overflow (the
\* debug profile), FALSE when it wraps (the release profile)
VARIABLE overflow_checks

PartialSecretPanic ==
    [panicked |-> TRUE, secret |-> None, diffs |-> <<>>, weights |-> <<>>]

Zeros(m) == [i \in 1..m |-> 0]

\* update_diffs storing y where it should store y / x
update_diffs_undivided(self, ids, new_ys) ==
    LET new_points == Len(new_ys)
        total_points == Len(ids)
        tail == SubSeq(ids, total_points - new_points + 1, total_points)
    IN  \* more new ys than ids: total_points - new_points traps, or wraps to a
        \* start past the end of the slice
        IF new_points > total_points THEN PartialSecretPanic
        ELSE IF \E i \in 1..new_points : tail[i] = 0 THEN PartialSecretPanic
        ELSE [self EXCEPT !.diffs = @ \o new_ys]

\* PartialSecret::update_diffs
update_diffs(self, ids, new_ys) ==
    LET new_points == Len(new_ys)
        total_points == Len(ids)
        tail == SubSeq(ids, total_points - new_points + 1, total_points)
    IN  \* more new ys than ids: total_points - new_points traps, or wraps to a
        \* start past the end of the slice
        IF new_points > total_points THEN PartialSecretPanic
        ELSE IF \E i \in 1..new_points : tail[i] = 0 THEN PartialSecretPanic
        ELSE [self EXCEPT !.diffs =
                @ \o [i \in 1..new_points |-> Gf256Div(new_ys[i], tail[i])]]

\* the inner loop subtracting weights[j] as it was before its division
RECURSIVE werner_inner_stale(_, _, _, _)
werner_inner_stale(weights, ids, i, j) ==
    IF j >= i THEN weights
    ELSE
        LET diff == Gf256Sub(ids[j + 1], ids[i + 1])
            wj == Gf256Div(weights[j + 1], diff)
        IN  werner_inner_stale(
                [weights EXCEPT ![j + 1] = wj,
                                ![i + 1] = Gf256Sub(@, weights[j + 1])],
                ids, i, j + 1)

\* the inner loop of Werner's algorithm (3.1): for j in 0..i
RECURSIVE werner_inner(_, _, _, _)
werner_inner(weights, ids, i, j) ==
    IF j >= i THEN weights
    ELSE
        LET diff == Gf256Sub(ids[j + 1], ids[i + 1])
            wj == Gf256Div(weights[j + 1], diff)
        IN  werner_inner(
                [weights EXCEPT ![j + 1] = wj, ![i + 1] = Gf256Sub(@, wj)],
                ids, i, j + 1)

\* the outer loop: for i in start_weight..total_points
RECURSIVE werner_outer(_, _, _, _)
werner_outer(weights, ids, i, total_points) ==
    IF i >= total_points THEN weights
    ELSE werner_outer(werner_inner(weights, ids, i, 0), ids, i + 1, total_points)

\* PartialSecret::compute_secret
RECURSIVE barycentric_num(_, _, _)
barycentric_num(diffs, weights, m) ==
    IF m = 0 THEN 0
    ELSE Gf256Add(barycentric_num(diffs, weights, m - 1),
                  Gf256Mul(weights[m], diffs[m]))

RECURSIVE barycentric_denom(_, _, _)
barycentric_denom(ids, weights, m) ==
    IF m = 0 THEN 0
    ELSE Gf256Add(barycentric_denom(ids, weights, m - 1),
                  Gf256Div(weights[m], ids[m]))

compute_secret(self, ids) ==
    LET m == Min(Len(ids), Min(Len(self.diffs), Len(self.weights)))
        num == barycentric_num(self.diffs, self.weights, m)
        denom == barycentric_denom(ids, self.weights, m)
    IN  IF (\E i \in 1..m : ids[i] = 0) \/ denom = 0 THEN PartialSecretPanic
        ELSE [self EXCEPT !.secret = Some(Gf256Div(num, denom))]

\* update_barycentric_weights computing the secret at every call, without
\* the test on the threshold
update_barycentric_weights_eager(self, threshold, ids) ==
    LET total_points == Len(ids)
        new_points == total_points - Len(self.weights)
        start_weight ==
            IF self.weights = <<>> THEN 1 ELSE total_points - new_points
        initial ==
            IF self.weights = <<>>
            THEN [Zeros(total_points) EXCEPT ![1] = 1]
            ELSE self.weights \o Zeros(new_points)
    IN  IF self.panicked \/ (new_points < 0 /\ overflow_checks)
        THEN PartialSecretPanic
        ELSE IF total_points = 1 THEN self
        ELSE IF new_points < 0 THEN PartialSecretPanic
        ELSE IF self.weights = <<>> /\ total_points = 0 THEN PartialSecretPanic
        ELSE IF \E i \in start_weight..(total_points - 1), j \in 0..(total_points - 1) :
                    j < i /\ ids[j + 1] = ids[i + 1]
        THEN PartialSecretPanic
        ELSE compute_secret(
                [self EXCEPT !.weights =
                    werner_outer(initial, ids, start_weight, total_points)],
                ids)

\* PartialSecret::update_barycentric_weights
update_barycentric_weights(self, threshold, ids) ==
    LET total_points == Len(ids)
        new_points == total_points - Len(self.weights)
        start_weight ==
            IF self.weights = <<>> THEN 1 ELSE total_points - new_points
        initial ==
            IF self.weights = <<>>
            THEN [Zeros(total_points) EXCEPT ![1] = 1]
            ELSE self.weights \o Zeros(new_points)
    IN  \* total_points - self.weights.len() below zero: trapped, or wrapped to
        \* a huge new_points, which only the return at one point survives (the
        \* append of that many weights fails in every build); with no ids and
        \* no weights yet, self.weights[0] is out of bounds
        IF self.panicked \/ (new_points < 0 /\ overflow_checks)
        THEN PartialSecretPanic
        ELSE IF total_points = 1 THEN self
        ELSE IF new_points < 0 THEN PartialSecretPanic
        ELSE IF self.weights = <<>> /\ total_points = 0 THEN PartialSecretPanic
        ELSE IF \E i \in start_weight..(total_points - 1), j \in 0..(total_points - 1) :
                    j < i /\ ids[j + 1] = ids[i + 1]
        THEN PartialSecretPanic
        ELSE
            LET updated ==
                    [self EXCEPT !.weights =
                        werner_outer(initial, ids, start_weight, total_points)]
            IN  \* threshold as usize - total_points below zero: trapped, or
                \* wrapped to a non-zero value
                IF threshold < total_points
                THEN IF overflow_checks THEN PartialSecretPanic ELSE updated
                ELSE IF threshold - total_points = 0
                THEN compute_secret(updated, ids)
                ELSE updated

\* PartialSecret::new
PartialSecret_new(threshold, ids, new_ys) ==
    LET new_points == Len(new_ys)
        total_points == Len(ids)
        partial_comp ==
            [panicked |-> FALSE, secret |-> None, diffs |-> <<>>, weights |-> <<>>]
    IN  IF \/ threshold < 2
           \/ new_points = 0
           \/ total_points > threshold
           \/ new_points # total_points
        THEN PartialSecretPanic
        ELSE update_barycentric_weights(
                update_diffs(partial_comp, ids, new_ys), threshold, ids)

\* update pairing the new y values with the first ids, not the last
PartialSecret_update_first_ids(self, threshold, ids, ys) ==
    IF self.panicked \/ Len(ys) = 0 \/ Len(ids) > threshold \/ Len(ids) < Len(ys)
    THEN PartialSecretPanic
    ELSE update_barycentric_weights(
            update_diffs(self, SubSeq(ids, 1, Len(ys)), ys), threshold, ids)

\* PartialSecret::update
PartialSecret_update(self, threshold, ids, ys) ==
    IF self.panicked \/ Len(ys) = 0 \/ Len(ids) > threshold \/ Len(ids) < Len(ys)
    THEN PartialSecretPanic
    ELSE update_barycentric_weights(update_diffs(self, ids, ys), threshold, ids)

\* PartialSecret::get_secret
get_secret(self) ==
    IF self.panicked \/ self.secret = None THEN Panic ELSE Ok(self.secret[1])

\* one pass of the closure in interpolate: the coefficients times (X - x1)
MulByLinear(coeffs, x1) ==
    [m \in 1..Len(coeffs) |->
        Gf256Add(Gf256Mul(coeffs[m], x1), IF m = 1 THEN 0 ELSE coeffs[m - 1])]

\* the inner loop of interpolate over the points from position j on, for the
\* point at position i: <<prod, coeffs>>
RECURSIVE interpolate_term(_, _, _, _, _)
interpolate_term(points, i, j, prod, coeffs) ==
    IF j > Len(points) THEN <<prod, coeffs>>
    ELSE IF points[i][1] # points[j][1]
    THEN interpolate_term(points, i, j + 1,
            Gf256Mul(prod, Gf256Sub(points[i][1], points[j][1])),
            MulByLinear(coeffs, points[j][1]))
    ELSE interpolate_term(points, i, j + 1, prod, coeffs)

RECURSIVE interpolate_sum(_, _, _)
interpolate_sum(points, i, poly) ==
    IF i > Len(points) THEN poly
    ELSE IF points[i][1] = 0 THEN Panic
    ELSE
        LET len == Len(points)
            term == interpolate_term(points, i, 1, 1,
                        [Zeros(len) EXCEPT ![1] = points[i][2]])
        IN  interpolate_sum(points, i + 1,
                [m \in 1..len |-> Gf256Add(poly[m], Gf256Div(term[2][m], term[1]))])

\* lagrange::interpolate: the coefficients of the Lagrange polynomial through
\* the points; Panic when it comes to a point of x = 0
interpolate(points) == interpolate_sum(points, 1, Zeros(Len(points)))

(***************************************************************************)
(* The state: the latest dealing, the share list being assembled for       *)
(* recovery, and the call that consumed it.                                *)
(***************************************************************************)
VARIABLES
    dealings,       \* number of generate_shares calls made so far
    gen,            \* arguments and result of the latest generate_shares call
    input,          \* the share list assembled for recovery
    tampers,        \* number of alterations made to the shares of input
    call,           \* the recovery or validation call made on input, and its result
    ps_threshold,   \* threshold of the PartialSecret computation
    ps_ids,         \* x values of the points of the computation, in feeding order
    ps_ys,          \* their y values
    ps_poly,        \* coefficients of the polynomial the ys were read off (<<>>: none)
    ps_fed,         \* number of points ingested so far
    ps_batches,     \* sizes of the batches ingested so far, in call order
    ps_again,       \* number of update calls made after the last point went in
    ps_call_ids,    \* the ids argument of the latest new or update call
    ps              \* the PartialSecret (<<>> before PartialSecret::new)

sss_vars == <<dealings, gen, input, tampers, call>>
ps_vars == <<ps_threshold, ps_ids, ps_ys, ps_poly, ps_fed, ps_batches, ps_again, ps_call_ids,
            overflow_checks, ps>>
vars == <<dealings, gen, input, tampers, call,
          ps_threshold, ps_ids, ps_ys, ps_poly, ps_fed, ps_batches, ps_again,
          ps_call_ids, overflow_checks, ps>>

NoDealing ==
    [k |-> 0, n |-> 0, secret |-> <<>>, sign_shares |-> FALSE, rnd |-> <<>>,
     result |-> NotCalled]

NoCall == [op |-> "none", verify_signatures |-> FALSE, result |-> NotCalled]

SssIdle ==
    /\ dealings = 0
    /\ gen = NoDealing
    /\ input = <<>>
    /\ tampers = 0
    /\ call = NoCall

PsIdle ==
    /\ ps_threshold = 0
    /\ ps_ids = <<>>
    /\ ps_ys = <<>>
    /\ ps_poly = <<>>
    /\ ps_fed = 0
    /\ ps_batches = <<>>
    /\ ps_again = 0
    /\ ps_call_ids = <<>>
    /\ overflow_checks \in BOOLEAN
    /\ ps = None

Init == SssIdle /\ PsIdle

\* SSS::generate_shares(k, n, secret, sign_shares), rnd being what the random
\* source returns during the call
Generate(k, n, secret, sign_shares, rnd) ==
    /\ call = NoCall
    /\ dealings < MaxDealings
    /\ Len(input) < MaxInput
    /\ dealings' = dealings + 1
    /\ gen' = [k |-> k, n |-> n, secret |-> secret, sign_shares |-> sign_shares,
               rnd |-> rnd,
               result |-> generate_shares(k, n, secret, sign_shares, rnd,
                                          dealings + 1)]
    /\ UNCHANGED <<input, tampers, call>>
    /\ UNCHANGED ps_vars

\* the holder of share i of the latest dealing hands it in
Submit(i) ==
    /\ call = NoCall
    /\ gen.result.tag = "Ok"
    /\ i \in 1..Len(gen.result.value)
    /\ Len(input) < MaxInput
    /\ input' = Append(input, gen.result.value[i])
    /\ UNCHANGED <<dealings, gen, tampers, call>>
    /\ UNCHANGED ps_vars

\* a byte of a handed-in share is flipped (its lowest bit)
FlipDataByte(pos, byteindex) ==
    /\ call = NoCall
    /\ tampers < MaxTampers
    /\ pos \in 1..Len(input)
    /\ byteindex \in 1..Len(input[pos].data)
    /\ input' = [input EXCEPT ![pos].data[byteindex] = Gf256Add(@, 1)]
    /\ tampers' = tampers + 1
    /\ UNCHANGED <<dealings, gen, call>>
    /\ UNCHANGED ps_vars

\* a handed-in share loses its signature
StripSignature(pos) ==
    /\ call = NoCall
    /\ tampers < MaxTampers
    /\ pos \in 1..Len(input)
    /\ is_signed(input[pos])
    /\ input' = [input EXCEPT ![pos].signature_pair = None]
    /\ tampers' = tampers + 1
    /\ UNCHANGED <<dealings, gen, call>>
    /\ UNCHANGED ps_vars

\* a handed-in share is presented under another identifier: the id field
\* of a Share is a plain public field, 0 included
RelabelShare(pos, id) ==
    /\ call = NoCall
    /\ tampers < MaxTampers
    /\ pos \in 1..Len(input)
    /\ input[pos].id # id
    /\ input' = [input EXCEPT ![pos].id = id]
    /\ tampers' = tampers + 1
    /\ UNCHANGED <<dealings, gen, call>>
    /\ UNCHANGED ps_vars

\* SSS::recover_secret(input, verify)
Recover(verify) ==
    /\ call = NoCall
    /\ call' = [op |-> "recover_secret", verify_signatures |-> verify,
                result |-> recover_secret(input, verify)]
    /\ UNCHANGED <<dealings, gen, input, tampers>>
    /\ UNCHANGED ps_vars

\* process_and_validate_shares on the strings of the handed-in shares; what
\* the share codec makes of a share number 0 is left out
Process(verify) ==
    /\ call = NoCall
    /\ \A i \in 1..Len(input) : input[i].id # 0
    /\ call' = [op |-> "process_and_validate_shares",
                verify_signatures |-> verify,
                result |-> process_and_validate_shares(
                              [i \in 1..Len(input) |-> into_string(input[i])],
                              verify)]
    /\ UNCHANGED <<dealings, gen, input, tampers>>
    /\ UNCHANGED ps_vars

\* splitting, share hand-in, tampering and recovery
Next ==
    \/ \E k \in 0..MaxN, n \in 0..MaxN, secret \in Secrets, sign_shares \in BOOLEAN :
         \E b \in RandBytes : \E rnd \in RandomDraws(secret, k, {b}) :
            Generate(k, n, secret, sign_shares, rnd)
    \/ \E i \in 1..MaxN : Submit(i)
    \/ \E pos \in 1..MaxInput, byteindex \in 1..2 : FlipDataByte(pos, byteindex)
    \/ \E pos \in 1..MaxInput : StripSignature(pos)
    \/ \E pos \in 1..MaxInput, id \in 0..MaxN : RelabelShare(pos, id)
    \/ \E verify \in BOOLEAN : Recover(verify)
    \/ \E verify \in BOOLEAN : Process(verify)

Spec == Init /\ [][Next]_vars

\* splitting alone, over a wider range of thresholds, secrets and draws
NextSplit ==
    \E k \in 0..MaxSplitN, n \in 0..MaxSplitN, secret \in SplitSecrets,
       sign_shares \in BOOLEAN :
        \E rnd \in RandomDraws(secret, k, SplitRandBytes) :
            dealings = 0 /\ Generate(k, n, secret, sign_shares, rnd)

SpecSplit == Init /\ [][NextSplit]_vars

\* the points of a PartialSecret computation: pairwise distinct non-zero x
PointLists(m) ==
    {x \in [1..m -> PointIds] : \A i, j \in 1..m : i # j => x[i] # x[j]}

\* the ys are either arbitrary, or the values at the ids of a polynomial of
\* degree below the threshold
InitPartial ==
    /\ SssIdle
    /\ ps_threshold \in 2..MaxThreshold
    /\ ps_ids \in PointLists(ps_threshold)
    /\ \/ /\ ps_poly = <<>>
          /\ ps_ys \in [1..ps_threshold -> PointYs]
       \/ /\ ps_poly \in [1..ps_threshold -> PointYs]
          /\ ps_ys = [i \in 1..ps_threshold |-> evaluate_at(ps_poly, ps_ids[i])]
    /\ ps_fed = 0
    /\ ps_batches = <<>>
    /\ ps_again = 0
    /\ ps_call_ids = <<>>
    /\ overflow_checks \in BOOLEAN
    /\ ps = None

\* PartialSecret::new on the first m points
New(m) ==
    /\ ps = None
    /\ m \in 1..ps_threshold
    /\ ps' = Some(PartialSecret_new(ps_threshold, SubSeq(ps_ids, 1, m),
                                    SubSeq(ps_ys, 1, m)))
    /\ ps_fed' = m
    /\ ps_batches' = <<m>>
    /\ ps_call_ids' = SubSeq(ps_ids, 1, m)
    /\ UNCHANGED <<ps_threshold, ps_ids, ps_ys, ps_poly, ps_again, overflow_checks>>
    /\ UNCHANGED sss_vars

\* PartialSecret::update with the next m points: all ids so far, the new ys
Update(m) ==
    /\ ps # None
    /\ m >= 1
    /\ ps_fed + m <= ps_threshold
    /\ ps' = Some(PartialSecret_update(ps[1], ps_threshold,
                                       SubSeq(ps_ids, 1, ps_fed + m),
                                       SubSeq(ps_ys, ps_fed + 1, ps_fed + m)))
    /\ ps_fed' = ps_fed + m
    /\ ps_batches' = Append(ps_batches, m)
    /\ ps_call_ids' = SubSeq(ps_ids, 1, ps_fed + m)
    /\ UNCHANGED <<ps_threshold, ps_ids, ps_ys, ps_poly, ps_again, overflow_checks>>
    /\ UNCHANGED sss_vars

\* PartialSecret::update called once more when all the points are in, with
\* the last m y values again and a list of ids: the ids of the earlier
\* calls, the same ids in another order, or the first id alone
UpdateAgain(ids, m) ==
    /\ ps # None
    /\ ps_fed = ps_threshold
    /\ ps_again < MaxAgain
    /\ m \in 1..ps_threshold
    /\ ps' = Some(PartialSecret_update(ps[1], ps_threshold, ids,
                                       SubSeq(ps_ys, ps_threshold - m + 1,
                                              ps_threshold)))
    /\ ps_again' = ps_again + 1
    /\ ps_call_ids' = ids
    /\ UNCHANGED <<ps_threshold, ps_ids, ps_ys, ps_poly, ps_fed, ps_batches,
                   overflow_checks>>
    /\ UNCHANGED sss_vars

NextPartial ==
    \/ \E m \in 1..MaxThreshold : New(m)
    \/ \E m \in 1..MaxThreshold : Update(m)
    \/ \E ids \in {ps_ids, Reverse(ps_ids), SubSeq(ps_ids, 1, 1)}, m \in 1..MaxThreshold :
            UpdateAgain(ids, m)

SpecPartial == InitPartial /\ [][NextPartial]_vars

(***************************************************************************)
(* Properties.                                                             *)
(***************************************************************************)
DistinctIds(shares) ==
    \A i, j \in 1..Len(shares) : i # j => shares[i].id # shares[j].id

DistinctData(shares) ==
    \A i, j \in 1..Len(shares) : i # j => shares[i].data # shares[j].data

SameThreshold(shares) ==
    \A i \in 1..Len(shares) : shares[i].k = shares[1].k

\* input is a selection of m different, unaltered shares of the latest dealing
SelectionOfDealing(m) ==
    /\ gen.result.tag = "Ok"
    /\ Len(input) = m
    /\ \A i \in 1..Len(input) : input[i] \in Range(gen.result.value)
    /\ DistinctIds(input)

\* the lists made of m different shares of the latest dealing, in any order
Selections(m) ==
    {sel \in [1..m -> 1..gen.n] : \A i, j \in 1..m : i # j => sel[i] # sel[j]}

Selected(sel) == [i \in 1..Len(sel) |-> gen.result.value[sel[i]]]

\* C1: any k of the n shares of generate_shares(k, n, s, sign), 1 <= k <= n,
\* handed to recover_secret (here without signature verification) give back
\* exactly s.
C1_RoundTrip ==
    (/\ call.op = "recover_secret"
     /\ ~call.verify_signatures
     /\ 1 <= gen.k
     /\ gen.k <= gen.n
     /\ SelectionOfDealing(gen.k))
    => (call.result.tag = "Ok" /\ call.result.value = gen.secret)

\* the bytes that a set of share holders sees of one secret byte, for one row
\* of random bytes
ShareView(s, row, k, n, ids) ==
    [i \in ids |-> secret_share(<<s>>, k, n, <<row>>)[i][1]]

\* all the views secret_share can produce, over every value of the random bytes
ShareViews(s, k, n, ids) ==
    {ShareView(s, row, k, n, ids) : row \in [1..RandomPerByte(k) -> Byte]}

\* C2: for a split with threshold k, the shares of at most k - 1 holders can
\* take the same set of values whatever the secret byte is: they tell nothing
\* about it.
C2_Secrecy ==
    (gen.result.tag = "Ok" /\ 1 <= gen.k)
    => \A ids \in SUBSET (1..gen.n) :
          Cardinality(ids) <= gen.k - 1
          => \A s1, s2 \in CandidateBytes :
                ShareViews(s1, gen.k, gen.n, ids) = ShareViews(s2, gen.k, gen.n, ids)

\* C3: with k = 1 every share's data equals the secret, whatever the random
\* bytes, and no non-empty selection of the shares is rejected for duplicate
\* data.
C3_ThresholdOne ==
    (gen.result.tag = "Ok" /\ gen.k = 1)
    => /\ \A i \in 1..gen.n : gen.result.value[i].data = gen.secret
       /\ \A m \in 1..gen.n : \A sel \in Selections(m) :
             ~IsErr(validate_shares(Selected(sel)), "DuplicateShareData")

\* the message of MissingShares for a threshold of k and m shares found
MissingSharesText(k, m) ==
    Decimal(k) \o <<" shares are required to recover the secret, found only ">>
        \o Decimal(m) \o <<".">>

\* C4: m shares with distinct ids and data and one threshold k > m fail with
\* MissingShares, required = k and provided = m, and the message names k as
\* required and m as found.
C4_MissingShares ==
    (/\ \/ call.op = "recover_secret"
        \/ call.op = "process_and_validate_shares" /\ ~call.verify_signatures
     /\ input # <<>>
     /\ DistinctIds(input)
     /\ DistinctData(input)
     /\ SameThreshold(input)
     /\ Len(input) < input[1].k)
    => /\ IsErr(call.result, "MissingShares")
       /\ call.result.error.required = input[1].k
       /\ call.result.error.provided = Len(input)
       /\ DisplayMissingShares(call.result.error)
            = MissingSharesText(input[1].k, Len(input))

\* position j of the list repeats an earlier share, and the shares before it
\* are in order: distinct ids, and distinct data unless the threshold is 1
FirstRepeatAt(shares, j) ==
    /\ shares[j].k >= 1
    /\ \E i \in 1..(j - 1) : shares[i] = shares[j]
    /\ \A a, b \in 1..(j - 1) :
          a < b => /\ shares[a].id # shares[b].id
                   /\ shares[a].data # shares[b].data \/ shares[b].k = 1

\* C5: a list that holds the same share twice fails with DuplicateShareId
\* carrying the identifier of that share.
C5_DuplicateShareId ==
    (\/ call.op = "recover_secret"
     \/ call.op = "process_and_validate_shares" /\ ~call.verify_signatures)
    => \A j \in 2..Len(input) :
          FirstRepeatAt(input, j)
          => /\ IsErr(call.result, "DuplicateShareId")
             /\ call.result.error.share_id = input[j].id

\* the share carries a signature pair that verify_signatures accepts for it
VerifiesAlone(share) ==
    /\ is_signed(share)
    /\ verify_data_vec_signature(
            format_share_for_signing(share.k, share.n, share.data),
            share.signature_pair[1], share.signature_pair[1].proof.root_hash)

\* the same for the share read back from its string, whose n is the share number
VerifiesAloneParsed(share) ==
    /\ is_signed(share)
    /\ verify_data_vec_signature(
            format_share_for_signing(share.k, share.id, share.data),
            share.signature_pair[1], share.signature_pair[1].proof.root_hash)

Thresholds(shares) == {shares[i].k : i \in 1..Len(shares)}

Roots(shares) ==
    {shares[i].signature_pair[1].proof.root_hash :
        i \in {j \in 1..Len(shares) : is_signed(shares[j])}}

\* C6: recovery over shares with distinct ids and data that disagree on k
\* fails with IncompatibleSets; with verification requested, a list of shares
\* that each verify but carry different Merkle roots fails with
\* IncompatibleSets; success needs one k bucket and, when verifying, one root
\* bucket. Stated for both recovery entry points, recover_secret on shares and
\* process_and_validate_shares on share strings.
C6_IncompatibleSets ==
    /\ call.op = "recover_secret"
       => /\ (/\ input # <<>>
              /\ DistinctIds(input)
              /\ DistinctData(input)
              /\ \A i \in 1..Len(input) : input[i].k >= 1
              /\ Cardinality(Thresholds(input)) > 1)
             => IsErr(call.result, "IncompatibleSets")
          /\ (/\ call.verify_signatures
              /\ input # <<>>
              /\ \A i \in 1..Len(input) : input[i].k >= 1 /\ VerifiesAlone(input[i])
              /\ Cardinality(Roots(input)) > 1)
             => IsErr(call.result, "IncompatibleSets")
          /\ call.result.tag = "Ok"
             => /\ Cardinality(Thresholds(input)) = 1
                /\ call.verify_signatures => Cardinality(Roots(input)) = 1
    /\ call.op = "process_and_validate_shares"
       => /\ (/\ input # <<>>
              /\ DistinctIds(input)
              /\ DistinctData(input)
              /\ \A i \in 1..Len(input) : input[i].k >= 1
              /\ Cardinality(Thresholds(input)) > 1)
             => IsErr(call.result, "IncompatibleSets")
          /\ (/\ call.verify_signatures
              /\ input # <<>>
              /\ \A i \in 1..Len(input) : input[i].k >= 1 /\ VerifiesAloneParsed(input[i])
              /\ Cardinality(Roots(input)) > 1)
             => IsErr(call.result, "IncompatibleSets")
          /\ call.result.tag = "Ok"
             => /\ Cardinality(Thresholds(input)) = 1
                /\ call.verify_signatures => Cardinality(Roots(input)) = 1

\* C7: the message signed for a generated share is the one verify_signatures
\* recomputes for it, so every non-empty selection of the signed shares of a
\* dealing passes verify_signatures.
C7_SignedMessageRecomputed ==
    (gen.result.tag = "Ok" /\ gen.sign_shares /\ 1 <= gen.k)
    => /\ \A i \in 1..gen.n :
             LET share == gen.result.value[i]
             IN  /\ is_signed(share)
                 /\ share.signature_pair[1].signature
                      = format_share_for_signing(share.k, share.n, share.data)
       /\ \A m \in 1..gen.n : \A sel \in Selections(m) :
             verify_signatures(Selected(sel)).tag = "Ok"

\* the share is signed, and its data is not the data its signature was made for
Tampered(share) ==
    /\ is_signed(share)
    /\ share.signature_pair[1].signature
         # format_share_for_signing(share.k, share.id, share.data)

\* C8: with verification requested, a list of signed shares that passes the
\* structural checks and holds a share whose data was altered after signing
\* fails with InvalidSignature carrying the id of an altered share.
C8_InvalidSignature ==
    (/\ call.op = "recover_secret"
     /\ call.verify_signatures
     /\ validate_shares(input).tag = "Ok"
     /\ input[1].k >= 1
     /\ \A i \in 1..Len(input) : is_signed(input[i])
     /\ \E i \in 1..Len(input) : Tampered(input[i]))
    => /\ IsErr(call.result, "InvalidSignature")
       /\ \E i \in 1..Len(input) :
             Tampered(input[i]) /\ call.result.error.share_id = input[i].id

\* C9: generate_shares with k = 0 or n = 0 returns
\* InvalidSplitParametersZero(k, n) and no shares.
C9_ZeroParameters ==
    (dealings > 0 /\ (gen.k = 0 \/ gen.n = 0))
    => /\ IsErr(gen.result, "InvalidSplitParametersZero")
       /\ gen.result.error.k = gen.k
       /\ gen.result.error.n = gen.n

\* the points handed to the PartialSecret
Points == [i \in 1..ps_threshold |-> <<ps_ids[i], ps_ys[i]>>]

\* C10: once the k points, of pairwise distinct non-zero x, are ingested,
\* get_secret returns the value at 0 of the polynomial interpolate builds from
\* them; for ys read off a polynomial of degree below k that is its constant
\* term.
C10_BarycentricEqualsLagrange ==
    (ps # None /\ ps_fed = ps_threshold /\ ps_call_ids = ps_ids)
    => /\ get_secret(ps[1]).tag = "Ok"
       /\ interpolate(Points) # Panic
       /\ get_secret(ps[1]).value = evaluate_at(interpolate(Points), 0)
       /\ ps_poly # <<>> => get_secret(ps[1]).value = ps_poly[1]

\* three points of a polynomial of degree two, and its constant term recovered
C10_Witness ==
    /\ ps # None
    /\ ps_threshold = 3
    /\ ps_fed = 3
    /\ ps_poly # <<>>
    /\ ps_poly[1] # 0
    /\ ps_poly[2] # 0
    /\ ps_poly[3] # 0
    /\ get_secret(ps[1]).tag = "Ok"
    /\ get_secret(ps[1]).value = ps_poly[1]

\* C11: the coefficient column that secret_share hands to the polynomial
\* evaluation has exactly k entries, the secret byte first and then k - 1
\* freshly drawn random bytes.
C11_ColumnLength ==
    (gen.result.tag = "Ok" /\ 1 <= gen.k /\ gen.k <= gen.n)
    => /\ RandomPerByte(gen.k) = gen.k - 1
       /\ \A c \in 1..Len(gen.secret) :
             LET col == col_in_for(gen.secret[c], gen.rnd[c], gen.k)
             IN  /\ Len(col) = gen.k
                 /\ col[1] = gen.secret[c]
                 /\ \A j \in 2..Len(col) : col[j] = gen.rnd[c][j - 1]

\* the points (id, data[byteindex]) of the first k shares of a validated list
IdPoints(shares, k, byteindex) ==
    [j \in 1..Min(k, Len(shares)) |-> <<shares[j].id, shares[j].data[byteindex]>>]

SameDataLength(shares) ==
    \A i, j \in 1..Len(shares) : Len(shares[i].data) = Len(shares[j].data)

\* C12: for every byte index, recover_secret returns the value at 0 of the
\* polynomial through the points (share.id, share.data[byteindex]) of the
\* first k validated shares: the x of a share is its id, not its n.
C12_InterpolatesOverIds ==
    LET validated == validate_signed_shares(input, call.verify_signatures)
    IN  (/\ call.op = "recover_secret"
         /\ validated.tag = "Ok"
         /\ validated.value.threshold >= 1
         /\ SameDataLength(input)
         /\ \A i \in 1..Len(input) : input[i].id # 0)
        => /\ call.result.tag = "Ok"
           /\ Len(call.result.value) = Len(input[1].data)
           /\ \A byteindex \in 1..Len(input[1].data) :
                 call.result.value[byteindex] =
                    lagrange_interpolate(
                        IdPoints(validated.value.shares,
                                 validated.value.threshold, byteindex))

\* some share of the list repeats the id of an earlier one
RepeatsId(shares) ==
    \E i, j \in 1..Len(shares) : i < j /\ shares[i].id = shares[j].id

\* some share of the list, of a threshold other than 1, repeats the data of
\* an earlier one
RepeatsData(shares) ==
    \E i, j \in 1..Len(shares) :
        i < j /\ shares[i].data = shares[j].data /\ shares[j].k # 1

\* the earliest check of the validation order that a share list fails:
\* emptiness, duplicates, threshold agreement, sufficiency; "none" when only
\* the signature checks are left
EarliestFailure(shares) ==
    IF Len(shares) = 0 THEN "EmptyShares"
    ELSE IF RepeatsId(shares) \/ RepeatsData(shares) THEN "Duplicate"
    ELSE IF Cardinality(Thresholds(shares)) > 1 THEN "IncompatibleSets"
    ELSE IF Len(shares) < shares[1].k THEN "MissingShares"
    ELSE "none"

\* C13: on both validation entry points the error returned is that of the
\* earliest failing check in the order EmptyShares, duplicate id or data,
\* IncompatibleSets on k, MissingShares, and only then the signature checks.
C13_CheckOrder ==
    (call.op # "none")
    => LET stage == EarliestFailure(input)
       IN  /\ stage = "EmptyShares" => IsErr(call.result, "EmptyShares")
           /\ stage = "Duplicate"
                => \/ IsErr(call.result, "DuplicateShareId")
                   \/ IsErr(call.result, "DuplicateShareData")
           /\ (stage = "Duplicate" /\ ~RepeatsData(input))
                => IsErr(call.result, "DuplicateShareId")
           /\ stage = "IncompatibleSets" => IsErr(call.result, "IncompatibleSets")
           /\ stage = "MissingShares" => IsErr(call.result, "MissingShares")

\* C14: a share list that validate_shares accepts has pairwise distinct ids
\* in 1..255; a list holding a share of id 0 is rejected and recovery on it
\* returns an error.
C14_ValidatedIdsNonZero ==
    LET validated == validate_shares(input)
    IN  (call.op = "recover_secret" /\ \A i \in 1..Len(input) : input[i].k >= 1)
        => /\ validated.tag = "Ok"
                => /\ \A i \in 1..Len(validated.value.shares) :
                         validated.value.shares[i].id \in 1..255
                   /\ DistinctIds(validated.value.shares)
           /\ (\E i \in 1..Len(input) : input[i].id = 0)
                => /\ validated.tag = "Err"
                   /\ call.result.tag = "Err"

\* C15: the shares of a set that validation accepts all have data of one
\* length, so every data[byteindex] that recover_secret reads of the first k
\* shares, for byteindex below the length of the first share, exists.
C15_EqualDataLength ==
    LET validated == validate_signed_shares(input, call.verify_signatures)
    IN  (/\ call.op = "recover_secret"
         /\ validated.tag = "Ok"
         /\ validated.value.threshold >= 1)
        => /\ SameDataLength(validated.value.shares)
           /\ \A byteindex \in 1..Len(validated.value.shares[1].data) :
                 \A j \in 1..Min(validated.value.threshold,
                                 Len(validated.value.shares)) :
                    byteindex <= Len(validated.value.shares[j].data)

\* C16: however the k points are cut into consecutive batches, new on the
\* first batch and update on each following one end with the secret that a
\* single new on all k points computes.
C16_BatchesEqualSingleNew ==
    (ps # None /\ ps_fed = ps_threshold /\ ps_call_ids = ps_ids)
    => /\ ~ps[1].panicked
       /\ ps[1].secret # None
       /\ ps[1].secret = PartialSecret_new(ps_threshold, ps_ids, ps_ys).secret

\* three points ingested one at a time, the secret not zero
C16_Witness ==
    /\ ps # None
    /\ ps_batches = <<1, 1, 1>>
    /\ ps_again = 0
    /\ ps[1].secret # None
    /\ ps[1].secret # Some(0)

\* the product over l # j, l <= t, of ids[j] - ids[l]
RECURSIVE WeightDenominator(_, _, _)
WeightDenominator(ids, j, t) ==
    IF t = 0 THEN 1
    ELSE IF t = j THEN WeightDenominator(ids, j, t - 1)
    ELSE Gf256Mul(Gf256Sub(ids[j], ids[t]), WeightDenominator(ids, j, t - 1))

\* C17: once t >= 2 points of pairwise distinct ids are ingested, weights
\* and diffs have length t, weights[j] = 1 / prod over l # j of
\* (ids[j] - ids[l]) and diffs[j] = y_j / ids[j].
C17_WeightsAndDiffs ==
    (ps # None /\ ps_again = 0 /\ ps_fed >= 2)
    => /\ ~ps[1].panicked
       /\ Len(ps[1].weights) = ps_fed
       /\ \A j \in 1..ps_fed :
             ps[1].weights[j] = Gf256Div(1, WeightDenominator(ps_ids, j, ps_fed))
       /\ Len(ps[1].diffs) = ps_fed
       /\ \A j \in 1..ps_fed :
             ps[1].diffs[j] = Gf256Div(ps_ys[j], ps_ids[j])

\* two points ingested by new of a threshold of three, a third by update
C17_Witness ==
    /\ ps # None
    /\ ps_threshold = 3
    /\ ps_batches = <<2, 1>>
    /\ ps_again = 0
    /\ Len(ps[1].weights) = 3
    /\ \A j \in 1..3 : ps_ys[j] # 0

\* s is t, or t cut short
IsPrefix(s, t) == Len(s) <= Len(t) /\ SubSeq(t, 1, Len(s)) = s

\* C18, as first stated: after every new or update call the secret is None
\* while fewer than k points are in and Some once k points are in, get_secret
\* returns it, and no later update call changes it.
C18_SecretOnceComplete_Original ==
    [][(ps' # None /\ ~ps'[1].panicked)
        => /\ ps_fed' < ps_threshold' => ps'[1].secret = None
           /\ ps_fed' = ps_threshold'
                => /\ ps'[1].secret # None
                   /\ get_secret(ps'[1]) = Ok(ps'[1].secret[1])
           /\ (ps # None /\ ps[1].secret # None)
                => ps'[1].secret = ps[1].secret]_vars

\* C18: after every new or update call whose ids are those of the earlier
\* calls followed by the ids of the new points, the secret is None while
\* fewer than k points are in and Some once k points are in, get_secret
\* returns it, and a secret once set is not changed by such a call.
C18_SecretOnceComplete ==
    [][(ps' # None /\ ~ps'[1].panicked /\ IsPrefix(ps_call_ids, ps_call_ids'))
        => /\ ps_fed' < ps_threshold' => ps'[1].secret = None
           /\ ps_fed' = ps_threshold'
                => /\ ps'[1].secret # None
                   /\ get_secret(ps'[1]) = Ok(ps'[1].secret[1])
           /\ (ps # None /\ ps[1].secret # None)
                => ps'[1].secret = ps[1].secret]_vars

\* a secret completed by an update, and an update call made after that
C18_Witness ==
    /\ ps # None
    /\ Len(ps_batches) >= 2
    /\ ps_fed = ps_threshold
    /\ ps_again = 1
    /\ ps_call_ids = ps_ids
    /\ get_secret(ps[1]).tag = "Ok"

====
